---- MODULE Spec2Model ----
(***************************************************************************)
(* Model of neptune's batch hashing dispatcher, src/batch_hasher.rs:       *)
(* BatcherType, Batcher<A> (t, new, new_with_strength, hash,               *)
(* max_batch_size) and the NoGPUBatchHasher stand-in.                      *)
(*                                                                         *)
(* The two engines (SimplePoseidonBatchHasher, GPUBatchHasher) and the     *)
(* futhark context acquisition live in other modules of the crate; they    *)
(* are modelled from the written contract of the BatchHasher capability.   *)
(***************************************************************************)
EXTENDS Integers, Sequences, FiniteSets, TLC

\* ------------------------------------------------------------------ bounds
\* Largest max_batch_size a caller passes; batches go one element beyond it.
MaxBatchCap == 2

\* ------------------------------------------------------------ value domains
Slots == {"a", "b"}                 \* dispatcher instances held by the caller
Platforms == {"macos", "other"}     \* cfg(target_os = "macos") or not
Arities == {2}                      \* width of A: Arity<Fr>
FrValues == {0, 1}                  \* field elements
Strengths == {"Standard", "Strengthened"}
Selectors == {"dev0"}               \* GPUSelector values
DEFAULT_STRENGTH == "Standard"

VARIABLES
    platform,   \* target_os of the build (feature "gpu" enabled)
    arity,      \* the A the dispatchers of this program are instantiated at
    process,    \* "running", or "aborted" after a panic
    slots,      \* slot -> NoBatcher or the owned Batcher value
    requested,  \* slot -> the arguments its Batcher was constructed with
    failedHash, \* slot -> has a hash call on this Batcher returned Err
    last        \* the most recent call: operation, arguments, outcome

vars == <<platform, arity, process, slots, requested, failedHash, last>>

\* --------------------------------------------------------------- BatcherType
CPUType == [tag |-> "CPU", sel |-> "none"]
GPUType == [tag |-> "GPU", sel |-> "none"]
CustomGPUType(s) == [tag |-> "CustomGPU", sel |-> s]
BatcherType == {CPUType, GPUType} \cup {CustomGPUType(s) : s \in Selectors}

\* ------------------------------------------------------------------- Result
NoError == [kind |-> "none", origin |-> "none"]
Error(k, o) == [kind |-> k, origin |-> o]
Ok(v) == [ok |-> TRUE, val |-> v, err |-> NoError]
Err(e, none) == [ok |-> FALSE, val |-> none, err |-> e]

NoBackend == [kind |-> "none", strength |-> "none", max_batch_size |-> 0, ctx |-> "none"]
NoBatcher == [variant |-> "none", inner |-> NoBackend]
NoRequest == [t |-> [tag |-> "none", sel |-> "none"], strength |-> "none", max_batch_size |-> 0]

\* What a call did: returned a value or panicked, and which calls it made on
\* the collaborators, in order.
Returned(r, calls) == [panicked |-> FALSE, msg |-> "none", res |-> r, calls |-> calls]
Panicked(m, none, calls) == [panicked |-> TRUE, msg |-> m, res |-> Err(NoError, none), calls |-> calls]

\* ------------------------------------------------- preimages and the hash
\* GenericArray<Fr, A> values the caller hashes: one per field element, repeated
\* to the width A.
Preimages(A) == {[k \in 1..A |-> v] : v \in FrValues}
RECURSIVE SeqsUpTo(_, _)
SeqsUpTo(S, n) ==
    IF n = 0 THEN {<<>>}
    ELSE LET shorter == SeqsUpTo(S, n - 1)
         IN shorter \cup {Append(s, x) : s \in {t \in shorter : Len(t) = n - 1}, x \in S}
Batches(A) == SeqsUpTo(Preimages(A), MaxBatchCap + 1)

\* The Poseidon hash of one preimage at one strength, as an uninterpreted term.
Poseidon(strength, preimage) == <<"H", strength, preimage>>

\* ------------------------------------------- collaborators (other modules)
\* One call made on a collaborator.
Call(fn, arg) == [fn |-> fn, arg |-> arg]
BackendConstructionFailed(fn) == Error("BackendConstructionFailed", fn)

\* cl::default_futhark_context() and cl::futhark_context(selector)
default_futhark_context(ctxOk) ==
    IF ctxOk THEN Ok("default")
    ELSE Err(BackendConstructionFailed("default_futhark_context"), "none")

futhark_context(selector, ctxOk) ==
    IF ctxOk THEN Ok(selector)
    ELSE Err(BackendConstructionFailed("futhark_context"), "none")

\* GPUBatchHasher::<A>::new_with_strength(ctx, strength, max_batch_size)
GPUBatchHasher_new_with_strength(ctx, strength, max_batch_size, ctorOk) ==
    IF ctorOk
    THEN Ok([kind |-> "GPUBatchHasher", strength |-> strength,
             max_batch_size |-> max_batch_size, ctx |-> ctx])
    ELSE Err(BackendConstructionFailed("GPUBatchHasher::new_with_strength"), NoBackend)

\* SimplePoseidonBatchHasher::<A>::new_with_strength(strength, max_batch_size):
\* succeeds for every positive max_batch_size.
SimplePoseidonBatchHasher_new_with_strength(strength, max_batch_size, ctorOk) ==
    IF ctorOk \/ max_batch_size > 0
    THEN Ok([kind |-> "SimplePoseidonBatchHasher", strength |-> strength,
             max_batch_size |-> max_batch_size, ctx |-> "none"])
    ELSE Err(BackendConstructionFailed("SimplePoseidonBatchHasher::new_with_strength"), NoBackend)

\* BatchHasher::hash of an engine: a batch longer than the cap is refused, the
\* accelerator may fail while executing, otherwise one output per preimage in
\* input order.
Engine_hash(engine, preimages, fault) ==
    IF Len(preimages) > engine.max_batch_size
    THEN Err(Error("BatchTooLarge", engine.kind), <<>>)
    ELSE IF fault /\ engine.kind = "GPUBatchHasher"
    THEN Err(Error("ComputationFailed", engine.kind), <<>>)
    ELSE Ok([i \in 1..Len(preimages) |-> Poseidon(engine.strength, preimages[i])])

\* The execution faults an engine can suffer during one hash call.
Faults(engine) == IF engine.kind = "GPUBatchHasher" THEN BOOLEAN ELSE {FALSE}

\* BatchHasher::max_batch_size of an engine
Engine_max_batch_size(engine) == engine.max_batch_size

\* ------------------------------------------------------- NoGPUBatchHasher
NoGPUBatchHasher == [kind |-> "NoGPUBatchHasher", strength |-> "none",
                     max_batch_size |-> 0, ctx |-> "none"]

NoGPUBatchHasher_hash(preimages) ==
    Panicked("not implemented", <<>>, <<>>)

NoGPUBatchHasher_max_batch_size ==
    Panicked("not implemented", 0, <<>>)

\* The type of the value inside Batcher::GPU under the build's cfg.
GPUVariantInner == IF platform = "macos" THEN "NoGPUBatchHasher" ELSE "GPUBatchHasher"

\* ---------------------------------------------------------------- Batcher
Batcher_t_KeepsSelector(self) ==
    IF self.variant = "GPU"
    THEN IF self.inner.ctx \in Selectors THEN CustomGPUType(self.inner.ctx) ELSE GPUType
    ELSE CPUType

Batcher_t(self) ==
    IF self.variant = "GPU" THEN GPUType ELSE CPUType

\* BatcherType::CPU => Ok(Batcher::CPU(SimplePoseidonBatchHasher::new_with_strength(..)?))
CPUArm(strength, max_batch_size, env) ==
    LET b == SimplePoseidonBatchHasher_new_with_strength(strength, max_batch_size, env.ctorOk)
        calls == <<Call("SimplePoseidonBatchHasher::new_with_strength", "none")>>
    IN IF ~b.ok
       THEN Returned(Err(b.err, NoBatcher), calls)
       ELSE Returned(Ok([variant |-> "CPU", inner |-> b.val]), calls)

MacosGPUArm_BuildsStub ==
    Returned(Ok([variant |-> "GPU", inner |-> NoGPUBatchHasher]), <<>>)

\* cfg(target_os = "macos"): BatcherType::GPU and BatcherType::CustomGPU(_)
MacosGPUArm ==
    Panicked("GPU unimplemented on macos", NoBatcher, <<>>)

GPUArm_FallsBackToCPU(strength, max_batch_size, env) ==
    LET c == default_futhark_context(env.ctxOk)
        ctxCall == Call("default_futhark_context", "none")
    IN IF ~c.ok
       THEN LET cpu == CPUArm(strength, max_batch_size, env)
            IN Returned(cpu.res, <<ctxCall>> \o cpu.calls)
       ELSE LET b == GPUBatchHasher_new_with_strength(c.val, strength, max_batch_size, env.ctorOk)
                calls == <<ctxCall, Call("GPUBatchHasher::new_with_strength", c.val)>>
            IN IF ~b.ok
               THEN Returned(Err(b.err, NoBatcher), calls)
               ELSE Returned(Ok([variant |-> "GPU", inner |-> b.val]), calls)

\* cfg(not(target_os = "macos")): BatcherType::GPU
GPUArm(strength, max_batch_size, env) ==
    LET c == default_futhark_context(env.ctxOk)
        ctxCall == Call("default_futhark_context", "none")
    IN IF ~c.ok
       THEN Returned(Err(c.err, NoBatcher), <<ctxCall>>)
       ELSE LET b == GPUBatchHasher_new_with_strength(c.val, strength, max_batch_size, env.ctorOk)
                calls == <<ctxCall, Call("GPUBatchHasher::new_with_strength", c.val)>>
            IN IF ~b.ok
               THEN Returned(Err(b.err, NoBatcher), calls)
               ELSE Returned(Ok([variant |-> "GPU", inner |-> b.val]), calls)

CustomGPUArm_RetriesDefault(selector, strength, max_batch_size, env) ==
    LET c == futhark_context(selector, env.ctxOk)
        ctxCall == Call("futhark_context", selector)
    IN IF ~c.ok
       THEN LET again == GPUArm(strength, max_batch_size, [env EXCEPT !.ctxOk = TRUE])
            IN Returned(again.res, <<ctxCall>> \o again.calls)
       ELSE LET b == GPUBatchHasher_new_with_strength(c.val, strength, max_batch_size, env.ctorOk)
                calls == <<ctxCall, Call("GPUBatchHasher::new_with_strength", c.val)>>
            IN IF ~b.ok
               THEN Returned(Err(b.err, NoBatcher), calls)
               ELSE Returned(Ok([variant |-> "GPU", inner |-> b.val]), calls)

CustomGPUArm_DefaultStrength(selector, strength, max_batch_size, env) ==
    LET c == futhark_context(selector, env.ctxOk)
        ctxCall == Call("futhark_context", selector)
    IN IF ~c.ok
       THEN Returned(Err(c.err, NoBatcher), <<ctxCall>>)
       ELSE LET b == GPUBatchHasher_new_with_strength(c.val, DEFAULT_STRENGTH, max_batch_size, env.ctorOk)
                calls == <<ctxCall, Call("GPUBatchHasher::new_with_strength", c.val)>>
            IN IF ~b.ok
               THEN Returned(Err(b.err, NoBatcher), calls)
               ELSE Returned(Ok([variant |-> "GPU", inner |-> b.val]), calls)

\* cfg(not(target_os = "macos")): BatcherType::CustomGPU(selector)
CustomGPUArm(selector, strength, max_batch_size, env) ==
    LET c == futhark_context(selector, env.ctxOk)
        ctxCall == Call("futhark_context", selector)
    IN IF ~c.ok
       THEN Returned(Err(c.err, NoBatcher), <<ctxCall>>)
       ELSE LET b == GPUBatchHasher_new_with_strength(c.val, strength, max_batch_size, env.ctorOk)
                calls == <<ctxCall, Call("GPUBatchHasher::new_with_strength", c.val)>>
            IN IF ~b.ok
               THEN Returned(Err(b.err, NoBatcher), calls)
               ELSE Returned(Ok([variant |-> "GPU", inner |-> b.val]), calls)

Batcher_new_with_strength(strength, t, max_batch_size, env) ==
    CASE t.tag = "GPU" /\ platform = "macos" -> MacosGPUArm
      [] t.tag = "CustomGPU" /\ platform = "macos" -> MacosGPUArm
      [] t.tag = "GPU" /\ platform # "macos" -> GPUArm(strength, max_batch_size, env)
      [] t.tag = "CustomGPU" /\ platform # "macos" ->
             CustomGPUArm(t.sel, strength, max_batch_size, env)
      [] t.tag = "CPU" -> CPUArm(strength, max_batch_size, env)

Batcher_new(t, max_batch_size, env) ==
    Batcher_new_with_strength(DEFAULT_STRENGTH, t, max_batch_size, env)

\* The part of a batch before its last preimage.
Front(preimages) ==
    IF Len(preimages) = 0 THEN preimages ELSE SubSeq(preimages, 1, Len(preimages) - 1)

Batcher_hash_DropsLast(self, preimages, fault) ==
    Returned(Engine_hash(self.inner, Front(preimages), fault), <<Call("hash", Front(preimages))>>)

Batcher_hash_Chunks(self, preimages, fault) ==
    LET n == Engine_max_batch_size(self.inner)
        head == IF Len(preimages) > n THEN SubSeq(preimages, 1, n) ELSE preimages
    IN Returned(Engine_hash(self.inner, head, fault), <<Call("hash", head)>>)

Batcher_hash_Retries(self, preimages, fault) ==
    LET first == Engine_hash(self.inner, preimages, fault)
    IN IF first.ok
       THEN Returned(first, <<Call("hash", preimages)>>)
       ELSE Returned(Engine_hash(self.inner, preimages, FALSE),
                     <<Call("hash", preimages), Call("hash", preimages)>>)

Batcher_hash(self, preimages, fault) ==
    IF self.variant = "GPU" THEN
        IF GPUVariantInner = "NoGPUBatchHasher"
        THEN NoGPUBatchHasher_hash(preimages)
        ELSE Returned(Engine_hash(self.inner, preimages, fault), <<Call("hash", preimages)>>)
    ELSE Returned(Engine_hash(self.inner, preimages, fault), <<Call("hash", preimages)>>)

Batcher_max_batch_size_OnlyCPU(self) ==
    IF self.variant = "GPU"
    THEN Returned(0, <<>>)
    ELSE Returned(Engine_max_batch_size(self.inner), <<Call("max_batch_size", "none")>>)

Batcher_max_batch_size(self) ==
    IF self.variant = "GPU" THEN
        IF GPUVariantInner = "NoGPUBatchHasher"
        THEN NoGPUBatchHasher_max_batch_size
        ELSE Returned(Engine_max_batch_size(self.inner), <<Call("max_batch_size", "none")>>)
    ELSE Returned(Engine_max_batch_size(self.inner), <<Call("max_batch_size", "none")>>)

\* ------------------------------------------------------------ the program
Envs == [ctxOk : BOOLEAN, ctorOk : BOOLEAN]
Caps == {0, MaxBatchCap}              \* the max_batch_size arguments tried
NoTwin == [slot |-> "none", res |-> Err(NoError, <<>>)]
NoEnv == [ctxOk |-> TRUE, ctorOk |-> TRUE]
NoCall == [op |-> "none", slot |-> "none", req |-> NoRequest, env |-> NoEnv,
           batch |-> <<>>, fault |-> FALSE,
           out |-> Returned(Ok(0), <<>>), twin |-> NoTwin]

Ready(i) == slots[i] # NoBatcher

Init ==
    /\ platform \in Platforms
    /\ arity \in Arities
    /\ process = "running"
    /\ slots = [i \in Slots |-> NoBatcher]
    /\ requested = [i \in Slots |-> NoRequest]
    /\ failedHash = [i \in Slots |-> FALSE]
    /\ last = NoCall

\* The caller binds the outcome of a construction call to slot i.
Construct(i, op, req, env, out) ==
    /\ process = "running"
    /\ ~Ready(i)
    /\ last' = [NoCall EXCEPT !.op = op, !.slot = i, !.req = req, !.env = env, !.out = out]
    /\ process' = IF out.panicked THEN "aborted" ELSE "running"
    /\ IF ~out.panicked /\ out.res.ok
       THEN /\ slots' = [slots EXCEPT ![i] = out.res.val]
            /\ requested' = [requested EXCEPT ![i] = req]
       ELSE UNCHANGED <<slots, requested>>
    /\ UNCHANGED <<platform, arity, failedHash>>

\* let b = Batcher::<A>::new(&t, max_batch_size)
New(i) ==
    \E t \in BatcherType, m \in Caps, env \in Envs :
        Construct(i, "new",
                  [t |-> t, strength |-> DEFAULT_STRENGTH, max_batch_size |-> m],
                  env, Batcher_new(t, m, env))

\* let b = Batcher::<A>::new_with_strength(strength, &t, max_batch_size)
NewWithStrength(i) ==
    \E s \in Strengths, t \in BatcherType, m \in Caps, env \in Envs :
        Construct(i, "new_with_strength",
                  [t |-> t, strength |-> s, max_batch_size |-> m],
                  env, Batcher_new_with_strength(s, t, m, env))

\* let b = Batcher::<A>::new(&other.t(), max_batch_size)
NewLike(i) ==
    \E j \in Slots \ {i}, m \in Caps, env \in Envs :
        /\ Ready(j)
        /\ Construct(i, "new_like",
                     [t |-> Batcher_t(slots[j]), strength |-> DEFAULT_STRENGTH,
                      max_batch_size |-> m],
                     env, Batcher_new(Batcher_t(slots[j]), m, env))

\* b.hash(&preimages)
Hash(i) ==
    \E preimages \in Batches(arity), fault \in Faults(slots[i].inner) :
        LET out == Batcher_hash(slots[i], preimages, fault)
            twin == IF last.op = "hash" /\ last.slot # i /\ last.batch = preimages
                    THEN [slot |-> last.slot, res |-> last.out.res]
                    ELSE NoTwin
        IN /\ process = "running"
           /\ Ready(i)
           /\ last' = [NoCall EXCEPT !.op = "hash", !.slot = i, !.batch = preimages,
                                     !.fault = fault, !.out = out, !.twin = twin]
           /\ process' = IF out.panicked THEN "aborted" ELSE "running"
           /\ failedHash' = [failedHash EXCEPT ![i] = @ \/ (~out.panicked /\ ~out.res.ok)]
           /\ UNCHANGED <<platform, arity, slots, requested>>

\* b.max_batch_size()
MaxBatchSize(i) ==
    LET out == Batcher_max_batch_size(slots[i])
    IN /\ process = "running"
       /\ Ready(i)
       /\ last' = [NoCall EXCEPT !.op = "max_batch_size", !.slot = i, !.out = out]
       /\ process' = IF out.panicked THEN "aborted" ELSE "running"
       /\ UNCHANGED <<platform, arity, slots, requested, failedHash>>

\* b.t()
BackendType(i) ==
    /\ process = "running"
    /\ Ready(i)
    /\ last' = [NoCall EXCEPT !.op = "t", !.slot = i,
                              !.out = Returned(Ok(Batcher_t(slots[i])), <<>>)]
    /\ UNCHANGED <<platform, arity, process, slots, requested, failedHash>>

\* drop(b)
Drop(i) ==
    /\ process = "running"
    /\ Ready(i)
    /\ slots' = [slots EXCEPT ![i] = NoBatcher]
    /\ requested' = [requested EXCEPT ![i] = NoRequest]
    /\ failedHash' = [failedHash EXCEPT ![i] = FALSE]
    /\ last' = [NoCall EXCEPT !.op = "drop", !.slot = i]
    /\ UNCHANGED <<platform, arity, process>>

Next ==
    \/ \E i \in Slots : New(i)
    \/ \E i \in Slots : NewWithStrength(i)
    \/ \E i \in Slots : NewLike(i)
    \/ \E i \in Slots : Hash(i)
    \/ \E i \in Slots : MaxBatchSize(i)
    \/ \E i \in Slots : BackendType(i)
    \/ \E i \in Slots : Drop(i)

Spec == Init /\ [][Next]_vars

\* ------------------------------------------------------------ properties
ConstructOps == {"new", "new_with_strength", "new_like"}
AcceleratorTags == {"GPU", "CustomGPU"}
Constructed == last.op \in ConstructOps
Hashed == last.op = "hash"
\* The outputs the batch of the last hash call must produce at a strength.
Expected(strength) ==
    [k \in 1..Len(last.batch) |-> Poseidon(strength, last.batch[k])]
\* The type a Batcher built for selector t must report.
BuiltType(t) == IF t.tag = "CPU" THEN CPUType ELSE GPUType
BuiltEngine(t) == IF t.tag = "CPU" THEN "SimplePoseidonBatchHasher" ELSE "GPUBatchHasher"

\* C1: on macOS a construction call with the GPU or CustomGPU selector returns
\* an UnsupportedBackend error to the caller and the process keeps running.
C1_UnsupportedBackendReturned ==
    (Constructed /\ platform = "macos" /\ last.req.t.tag \in AcceleratorTags)
        => /\ process = "running"
           /\ ~last.out.panicked
           /\ ~last.out.res.ok
           /\ last.out.res.err.kind = "UnsupportedBackend"

\* C2: every Ready dispatcher holds the backend its selector asked for (CPU
\* for CPU, the accelerator for GPU and CustomGPU, never the software backend
\* for an accelerator request), t() reports that backend, and no call changes
\* the owned backend while the dispatcher lives.
C2_BackendMatchesSelector ==
    /\ \A i \in Slots : Ready(i) =>
          /\ Batcher_t(slots[i]) = BuiltType(requested[i].t)
          /\ slots[i].inner.kind = BuiltEngine(requested[i].t)
    /\ (last.op = "t" => last.out.res = Ok(BuiltType(requested[last.slot].t)))

C2_BackendFixed ==
    [] C2_BackendMatchesSelector
    /\ [][\A i \in Slots : (slots[i] # NoBatcher /\ slots'[i] # NoBatcher) => slots'[i] = slots[i]]_vars

C2_Witness ==
    /\ last.op = "t"
    /\ failedHash[last.slot]
    /\ requested[last.slot].t.tag = "CustomGPU"
    /\ last.out.res.val = GPUType

\* C3: max_batch_size() returns the max_batch_size given at construction, on
\* every call, whatever hash calls came before.
C3_MaxBatchSizeAsConstructed ==
    /\ \A i \in Slots : Ready(i) =>
          Batcher_max_batch_size(slots[i]) =
              Returned(requested[i].max_batch_size, <<Call("max_batch_size", "none")>>)
    /\ (last.op = "max_batch_size" =>
          /\ ~last.out.panicked
          /\ last.out.res = requested[last.slot].max_batch_size)

C3_Witness ==
    /\ last.op = "max_batch_size"
    /\ failedHash[last.slot]
    /\ last.out.res = MaxBatchCap

C5_OversizeBatchTooLarge ==
    (Hashed /\ Len(last.batch) > requested[last.slot].max_batch_size)
        => /\ ~last.out.panicked
           /\ ~last.out.res.ok
           /\ last.out.res.err.kind = "BatchTooLarge"
           /\ last.out.res.val = <<>>

C5_Witness ==
    /\ Hashed
    /\ requested[last.slot].max_batch_size = MaxBatchCap
    /\ Len(last.batch) = MaxBatchCap + 1
    /\ ~last.out.res.ok

C7_ForwardsVerbatim ==
    /\ Hashed =>
          /\ last.out.calls = <<Call("hash", last.batch)>>
          /\ last.out.res = Engine_hash(slots[last.slot].inner, last.batch, last.fault)
    /\ last.op = "max_batch_size" =>
          /\ last.out.calls = <<Call("max_batch_size", "none")>>
          /\ last.out.res = Engine_max_batch_size(slots[last.slot].inner)

C7_Witness ==
    /\ Hashed
    /\ Len(last.batch) >= 1
    /\ ~last.out.res.ok
    /\ last.out.res.err.kind = "ComputationFailed"
    /\ last.out.calls = <<Call("hash", last.batch)>>

\* The calls a construction for selector t makes when nothing fails.
ContextCall(t) ==
    IF t.tag = "GPU" THEN Call("default_futhark_context", "none")
    ELSE Call("futhark_context", t.sel)
ContextOf(t) == IF t.tag = "GPU" THEN "default" ELSE t.sel

\* C8: a construction that returns makes its collaborator calls in order and
\* stops at the first failure, returning that failure: the software
\* constructor alone for CPU; for an accelerator selector the context first
\* (default for GPU, the selector's for CustomGPU), then the accelerator
\* constructor only if the context was acquired.  A failed construction
\* leaves no dispatcher and calls nothing twice.
C8_ConstructionFailuresPropagate ==
    (Constructed /\ ~last.out.panicked) =>
        LET t == last.req.t
            out == last.out
        IN /\ (~out.res.ok => ~Ready(last.slot) /\ out.res.val = NoBatcher)
           /\ (out.res.ok => slots[last.slot] = out.res.val)
           /\ t.tag = "CPU" =>
                 /\ out.calls = <<Call("SimplePoseidonBatchHasher::new_with_strength", "none")>>
                 /\ (~out.res.ok =>
                        out.res.err = BackendConstructionFailed("SimplePoseidonBatchHasher::new_with_strength"))
           /\ t.tag \in AcceleratorTags =>
                 /\ (~last.env.ctxOk =>
                        /\ out.calls = <<ContextCall(t)>>
                        /\ out.res = Err(BackendConstructionFailed(ContextCall(t).fn), NoBatcher))
                 /\ (last.env.ctxOk =>
                        out.calls = <<ContextCall(t),
                                      Call("GPUBatchHasher::new_with_strength", ContextOf(t))>>)
                 /\ (last.env.ctxOk /\ ~last.env.ctorOk =>
                        out.res = Err(BackendConstructionFailed("GPUBatchHasher::new_with_strength"),
                                      NoBatcher))
                 /\ (last.env.ctxOk /\ last.env.ctorOk => out.res.ok)

C8_Witness ==
    /\ Constructed
    /\ last.req.t.tag = "CustomGPU"
    /\ ~last.env.ctxOk
    /\ ~last.out.panicked
    /\ ~last.out.res.ok
    /\ Len(last.out.calls) = 1

\* C9: no dispatcher holds the NoGPUBatchHasher stub, on either platform, and
\* no call on a dispatcher ends in the stub's unimplemented!().
C9_StubNeverHeld ==
    /\ \A i \in Slots :
          /\ slots[i].inner.kind # "NoGPUBatchHasher"
          /\ ~(slots[i].variant = "GPU" /\ GPUVariantInner = "NoGPUBatchHasher")
    /\ last.out.msg # "not implemented"

C9_Witness ==
    /\ platform = "macos"
    /\ last.op \in {"hash", "max_batch_size"}
    /\ ~last.out.panicked
    /\ \A i \in Slots : Ready(i)

\* C10: t() returns only GPU or CPU; a dispatcher built from CustomGPU(selector)
\* reports GPU, and a dispatcher constructed from another one's t() asks for
\* the default accelerator context, not the context of the first one's selector.
C10_SelectorNotRetained ==
    /\ \A i \in Slots : Ready(i) =>
          /\ Batcher_t(slots[i]).tag \in {"GPU", "CPU"}
          /\ (requested[i].t.tag = "CustomGPU" => Batcher_t(slots[i]) = GPUType)
    /\ (last.op = "t" => last.out.res.val.tag \in {"GPU", "CPU"})
    /\ (last.op = "new_like" /\ ~last.out.panicked) =>
          /\ last.req.t.tag \in {"GPU", "CPU"}
          /\ (last.req.t.tag = "GPU" =>
                 last.out.calls[1] = Call("default_futhark_context", "none"))
          /\ (last.req.t.tag = "GPU" /\ last.out.res.ok =>
                 last.out.res.val.inner.ctx = "default")

C10_Witness ==
    /\ last.op = "new_like"
    /\ last.out.res.ok
    /\ \E j \in Slots \ {last.slot} :
          /\ requested[j].t.tag = "CustomGPU"
          /\ slots[j].inner.ctx \in Selectors
    /\ slots[last.slot].inner.ctx = "default"

TypeOK ==
    /\ platform \in Platforms
    /\ process \in {"running", "aborted"}
    /\ \A i \in Slots : slots[i].variant \in {"none", "GPU", "CPU"}

====
